---- MODULE Spec2Model ----
(***************************************************************************)
(* A model of sparc.client's PennsieveService                              *)
(* (src/src/sparc/client/services/pennsieve.py).                           *)
(*                                                                         *)
(* Python values are tagged records, so that None, a str and a dict can    *)
(* sit in the same place and be compared:                                  *)
(*     None          [t |-> "None"]                                        *)
(*     a str         [t |-> "str",  v |-> s]                               *)
(*     a dict        [t |-> "dict", v |-> d]                               *)
(*     a list        [t |-> "list", v |-> <<...>>]                         *)
(* A str whose characters matter (a uri, a path, a file name) is a         *)
(* sequence of one-character strings; a str that is only passed around (a  *)
(* profile name, a url) is a TLA+ string.  bytes are sequences of numbers. *)
(* Every record that can sit where a record of another shape can starts    *)
(* with a field that tells the shapes apart (t, st, op, m, e).             *)
(***************************************************************************)
EXTENDS Integers, Sequences, FiniteSets, TLC

\* ------------------------------------------------------------------------
\* Python values
\* ------------------------------------------------------------------------
None == [t |-> "None"]

Str(s) == [t |-> "str", v |-> s]

Dict(d) == [t |-> "dict", v |-> d]

List(l) == [t |-> "list", v |-> l]

\* dict.get(key) of a dict kept as a set of <<key, value>> pairs
DictGet(d, key) ==
    IF \E kv \in d : kv[1] = key
    THEN Str((CHOOSE kv \in d : kv[1] = key)[2])
    ELSE None

\* ------------------------------------------------------------------------
\* str.split("/"), list[5:], "/".join(...)
\* ------------------------------------------------------------------------
\* the positions of the separators, in increasing order
Slashes(s) == SelectSeq([i \in 1..Len(s) |-> i], LAMBDA i : s[i] = "/")

\* s.split("/"): one more segment than there are separators, empty segments kept
Split(s) ==
    LET at == Slashes(s)
        n  == Len(at) + 1
    IN  [k \in 1..n |->
            LET from == IF k = 1 THEN 1 ELSE at[k - 1] + 1
                to   == IF k = n THEN Len(s) ELSE at[k] - 1
            IN  IF to < from THEN <<>> ELSE SubSeq(s, from, to)]

RECURSIVE JoinFrom(_, _)
JoinFrom(segs, i) ==
    IF i > Len(segs) THEN <<>>
    ELSE IF i = Len(segs) THEN segs[i]
    ELSE segs[i] \o <<"/">> \o JoinFrom(segs, i + 1)

\* "/".join(segs)
Join(segs) == JoinFrom(segs, 1)

PrefixSegments == 5

SliceFrom(l, n) == IF Len(l) <= n THEN <<>> ELSE SubSeq(l, n + 1, Len(l))

\* a variant that takes the scheme, the host and three more segments off
RelativePath_mut(uri) == Join(SliceFrom(Split(uri), PrefixSegments + 1))

\* "/".join(uri.split("/")[5:])
RelativePath(uri) == Join(SliceFrom(Split(uri), PrefixSegments))

\* how a call ends: with a value, or with an exception
Returned(x) == [st |-> "returned", value |-> x]

Raised(e) == [st |-> "raised", exc |-> e]

NoCall == [op |-> "none"]

\* ------------------------------------------------------------------------
\* State
\* ------------------------------------------------------------------------
VARIABLES
    obj,            \* "none" before a PennsieveService exists, then "live"
    config,         \* the config argument the instance was constructed with
    profile_name,   \* self.profile_name
    delegate,       \* the pennsieve2 agent client: [connected, active]
    call,           \* the last operation invoked and its arguments
    ret,            \* how it ended: Returned(value) or Raised(exception)
    dcalls,         \* the calls it made on self.Pennsieve, in order
    dret,           \* what the last of those calls returned
    resp,           \* the response requests.post gave it
    trace,          \* its requests.post, open and write calls, in order
    fs,             \* local files: name -> bytes
    ncalls          \* download_file calls so far

vars == <<obj, config, profile_name, delegate, call, ret, dcalls, dret,
          resp, trace, fs, ncalls>>

sessionVars == <<obj, config, profile_name, delegate>>

downloadVars == <<resp, trace, fs, ncalls>>


\* ------------------------------------------------------------------------
\* Inputs
\* ------------------------------------------------------------------------
ProfileKey == "pennsieve_profile_name"

Profiles == {"alice", "bob"}

Configs ==
    {None, Dict({}), Dict({<<"other", "x">>})}
        \cup {Dict({<<ProfileKey, p>>}) : p \in Profiles}

\* ------------------------------------------------------------------------
\* __init__, connect
\* ------------------------------------------------------------------------
\* self.Pennsieve.connect(profile_name=...) or self.Pennsieve.connect()
ConnectCall(pn) ==
    IF pn # None
    THEN [m |-> "connect", kw |-> {<<"profile_name", pn.v>>}]
    ELSE [m |-> "connect", kw |-> {}]

Connected(pn) ==
    [connected |-> TRUE, active |-> IF pn # None THEN pn.v ELSE "default"]

\* the delegate handle connect() returns
Agent == [t |-> "Pennsieve"]

NewDelegate == [connected |-> FALSE, active |-> "default"]

Construct(cfg, conn) ==
    /\ obj = "none"
    /\ call' = [op |-> "__init__", config |-> cfg, connect |-> conn]
    /\ config' = cfg
    /\ LET made == [m |-> "Pennsieve", kw |-> {<<"connect", FALSE>>}]
           pn   == IF cfg # None THEN DictGet(cfg.v, ProfileKey) ELSE None
       IN  IF cfg # None /\ pn = None
           THEN \* "Profile: " + None
                /\ ret' = Raised("TypeError")
                /\ dcalls' = <<made>>
                /\ dret' = None
                /\ UNCHANGED <<obj, profile_name, delegate>>
           ELSE IF conn
           THEN \E ok \in BOOLEAN :
                /\ dcalls' = <<made, ConnectCall(pn)>>
                /\ dret' = None
                /\ IF ok
                   THEN /\ obj' = "live"
                        /\ profile_name' = pn
                        /\ delegate' = Connected(pn)
                        /\ ret' = Returned(None)
                   ELSE /\ ret' = Raised("DelegateError")
                        /\ UNCHANGED <<obj, profile_name, delegate>>
           ELSE /\ obj' = "live"
                /\ profile_name' = pn
                /\ delegate' = NewDelegate
                /\ dcalls' = <<made>>
                /\ dret' = None
                /\ ret' = Returned(None)
    /\ UNCHANGED downloadVars

Connect ==
    /\ obj = "live"
    /\ call' = [op |-> "connect"]
    /\ dcalls' = <<ConnectCall(profile_name)>>
    /\ dret' = None
    /\ \E ok \in BOOLEAN :
        IF ok
        THEN /\ delegate' = Connected(profile_name)
             /\ ret' = Returned(Agent)
        ELSE /\ ret' = Raised("DelegateError")
             /\ UNCHANGED delegate
    /\ UNCHANGED <<obj, config, profile_name>>
    /\ UNCHANGED downloadVars

\* ------------------------------------------------------------------------
\* info, get_profile, set_profile, close
\* ------------------------------------------------------------------------
\* A call on the delegate that does not change the session: it returns some
\* value or raises, and the wrapper hands either on.
Forward(op, dcall, results) ==
    /\ obj = "live"
    /\ call' = op
    /\ dcalls' = <<dcall>>
    /\ \/ \E r \in results : dret' = r /\ ret' = Returned(r)
       \/ dret' = None /\ ret' = Raised("DelegateError")
    /\ UNCHANGED sessionVars
    /\ UNCHANGED downloadVars

Info ==
    Forward([op |-> "info"], [m |-> "agent_version"], {Str("1.2.3")})

GetProfile ==
    Forward([op |-> "get_profile"], [m |-> "user.whoami"], {Str(delegate.active)})

\* a variant that also remembers the name it switched to
SetProfile_mut(name) ==
    /\ obj = "live"
    /\ call' = [op |-> "set_profile", profile_name |-> name]
    /\ dcalls' = <<[m |-> "user.switch", args |-> <<name>>]>>
    /\ \/ /\ delegate' = [delegate EXCEPT !.active = name]
          /\ profile_name' = Str(name)
          /\ dret' = Str(name)
          /\ ret' = Returned(Str(name))
       \/ /\ dret' = None
          /\ ret' = Raised("DelegateError")
          /\ UNCHANGED <<delegate, profile_name>>
    /\ UNCHANGED <<obj, config>>
    /\ UNCHANGED downloadVars

SetProfile(name) ==
    /\ obj = "live"
    /\ call' = [op |-> "set_profile", profile_name |-> name]
    /\ dcalls' = <<[m |-> "user.switch", args |-> <<name>>]>>
    /\ \/ /\ delegate' = [delegate EXCEPT !.active = name]
          /\ dret' = Str(name)
          /\ ret' = Returned(Str(name))
       \/ /\ dret' = None
          /\ ret' = Raised("DelegateError")
          /\ UNCHANGED delegate
    /\ UNCHANGED <<obj, config, profile_name>>
    /\ UNCHANGED downloadVars

Close ==
    /\ obj = "live"
    /\ call' = [op |-> "close"]
    /\ dcalls' = <<[m |-> "close"]>>
    /\ dret' = None
    /\ \/ /\ delegate' = [delegate EXCEPT !.connected = FALSE]
          /\ ret' = Returned(None)
       \/ /\ ret' = Raised("DelegateError")
          /\ UNCHANGED delegate
    /\ UNCHANGED <<obj, config, profile_name>>
    /\ UNCHANGED downloadVars

\* ------------------------------------------------------------------------
\* list_datasets, list_files, list_filenames, list_records
\* ------------------------------------------------------------------------
host_api == "https://api.pennsieve.io"

default_headers ==
    {<<"Content-Type", "application/json">>,
     <<"Accept", "application/json; charset=utf-8">>}

MaxFiles == 2

Num(n) == [t |-> "int", v |-> n]

DatasetFilters == {None, Num(64)}

\* "proto://host/bucket/dataset/version/sub/path/file.csv"
ExampleUri ==
    <<"p","r","o","t","o",":","/","/","h","o","s","t","/",
      "b","u","c","k","e","t","/","d","a","t","a","s","e","t","/",
      "v","e","r","s","i","o","n","/","s","u","b","/","p","a","t","h","/",
      "f","i","l","e",".","c","s","v">>

\* "s3://b/64/1/files/a.csv"
BucketUri ==
    <<"s","3",":","/","/","b","/","6","4","/","1","/",
      "f","i","l","e","s","/","a",".","c","s","v">>

\* "s3://b/64"
ShortUri == <<"s","3",":","/","/","b","/","6","4">>

FileEntries ==
    {[uri |-> Str(u), datasetId |-> 64] : u \in {ExampleUri, ShortUri}}

SeqsUpTo(S, n) == UNION {[1..k -> S] : k \in 0..n}

\* what the Discover API answers to /discover/search/files: the wrapping
\* mapping with a files array, or a mapping without one
FilesBodies ==
    {[totalCount |-> Len(fl), files |-> fl] : fl \in SeqsUpTo(FileEntries, MaxFiles)}
        \cup {[message |-> "Bad Request"]}

DatasetsBodies ==
    {[totalCount |-> 0, datasets |-> <<>>],
     [totalCount |-> 1, datasets |-> <<[id |-> 64, version |-> 1]>>]}

RecordsBodies ==
    {[totalCount |-> 0, records |-> <<>>],
     [totalCount |-> 1, records |-> <<[model |-> "subject", datasetId |-> 64]>>]}

SearchGet(path, params) ==
    [m |-> "get", url |-> <<host_api, path>>, headers |-> default_headers,
     params |-> params]

ListDatasets(organization_id) ==
    Forward([op |-> "list_datasets"],
            SearchGet("/discover/search/datasets",
                      [limit |-> Num(10), offset |-> Num(0), query |-> None,
                       organization |-> None, organizationId |-> organization_id,
                       tags |-> None, embargo |-> None, orderBy |-> None,
                       orderDirection |-> None]),
            DatasetsBodies)

ListRecords(dataset) ==
    Forward([op |-> "list_records"],
            SearchGet("/discover/search/records",
                      [limit |-> Num(10), offset |-> Num(0), model |-> None,
                       organization |-> None, datasetId |-> dataset]),
            RecordsBodies)

FilesGet(dataset) ==
    SearchGet("/discover/search/files",
              [limit |-> Num(10), offset |-> Num(0), fileType |-> None,
               query |-> None, organization |-> None, organizationId |-> None,
               datasetId |-> dataset])

\* self.Pennsieve.get(...)["files"]
FilesOf(body) ==
    IF "files" \in DOMAIN body
    THEN Returned(List(body.files))
    ELSE Raised("KeyError")

\* list(map(lambda x: "/".join(x["uri"].split("/")[5:]), response))
Filenames(response) ==
    List([i \in 1..Len(response.v) |-> Str(RelativePath(response.v[i].uri.v))])

\* a variant that hands on the whole body
ListFiles_mut(dataset) ==
    /\ obj = "live"
    /\ call' = [op |-> "list_files", dataset_id |-> dataset]
    /\ dcalls' = <<FilesGet(dataset)>>
    /\ \/ \E body \in FilesBodies : dret' = body /\ ret' = Returned(body)
       \/ dret' = None /\ ret' = Raised("DelegateError")
    /\ UNCHANGED sessionVars
    /\ UNCHANGED downloadVars

ListFiles(dataset) ==
    /\ obj = "live"
    /\ call' = [op |-> "list_files", dataset_id |-> dataset]
    /\ dcalls' = <<FilesGet(dataset)>>
    /\ \/ \E body \in FilesBodies : dret' = body /\ ret' = FilesOf(body)
       \/ dret' = None /\ ret' = Raised("DelegateError")
    /\ UNCHANGED sessionVars
    /\ UNCHANGED downloadVars

ListFilenames(dataset) ==
    /\ obj = "live"
    /\ call' = [op |-> "list_filenames", dataset_id |-> dataset]
    /\ dcalls' = <<FilesGet(dataset)>>
    /\ \/ \E body \in FilesBodies :
            /\ dret' = body
            /\ LET response == FilesOf(body) IN
               ret' = IF response.st = "raised" THEN response
                      ELSE Returned(Filenames(response.value))
       \/ dret' = None /\ ret' = Raised("DelegateError")
    /\ UNCHANGED sessionVars
    /\ UNCHANGED downloadVars

\* ------------------------------------------------------------------------
\* get, post, put, delete
\* ------------------------------------------------------------------------
Urls == {"/datasets"}

Answers == {Dict({<<"ok", "yes">>})}

Get(url) ==
    Forward([op |-> "get", url |-> url], [m |-> "get", url |-> url], Answers)

Post(url) ==
    Forward([op |-> "post", url |-> url],
            [m |-> "post", url |-> url, json |-> Dict({})], Answers)

Put(url) ==
    Forward([op |-> "put", url |-> url],
            [m |-> "put", url |-> url, json |-> Dict({})], Answers)

Delete(url) ==
    Forward([op |-> "delete", url |-> url], [m |-> "delete", url |-> url], Answers)

\* ------------------------------------------------------------------------
\* The service and its search operations
\* ------------------------------------------------------------------------
NoFiles == [n \in {} |-> <<>>]

Init ==
    /\ obj = "none"
    /\ config = None
    /\ profile_name = None
    /\ delegate = NewDelegate
    /\ call = NoCall
    /\ ret = Returned(None)
    /\ dcalls = <<>>
    /\ dret = None
    /\ resp = None
    /\ trace = <<>>
    /\ fs = NoFiles
    /\ ncalls = 0

Next ==
    \/ \E cfg \in Configs, conn \in BOOLEAN : Construct(cfg, conn)
    \/ Connect
    \/ Info
    \/ GetProfile
    \/ \E name \in Profiles : SetProfile(name)
    \/ Close
    \/ \E d \in DatasetFilters : ListDatasets(d)
    \/ \E d \in DatasetFilters : ListFiles(d)
    \/ \E d \in DatasetFilters : ListFilenames(d)
    \/ \E d \in DatasetFilters : ListRecords(d)
    \/ \E u \in Urls : Get(u)
    \/ \E u \in Urls : Post(u)
    \/ \E u \in Urls : Put(u)
    \/ \E u \in Urls : Delete(u)

Spec == Init /\ [][Next]_vars

\* ------------------------------------------------------------------------
\* download_file
\* ------------------------------------------------------------------------
MaxBatch == 2

zipit_url == "https://api.pennsieve.io/zipit/discover"

MaxCalls == 1

NameA == <<"a",".","c","s","v">>

NameB == <<"b",".","t","x","t">>

PathB == <<"f","i","l","e","s","/","b",".","t","x","t">>

Descriptor(id, version, uri, path, name) ==
    [datasetId |-> id, datasetVersion |-> version, uri |-> uri,
     path |-> path, name |-> name]

Descriptors ==
    {Descriptor(64, 1, Str(BucketUri), <<>>, NameA),
     Descriptor(64, 1, None, PathB, NameB),
     Descriptor(64, 2, Str(ShortUri), <<>>, NameB),
     Descriptor(65, 1, None, PathB, NameA)}

\* file_list: one descriptor, or a list of them
FileLists ==
    {Dict(d) : d \in Descriptors}
        \cup {List(l) : l \in SeqsUpTo(Descriptors, MaxBatch)}

OutputNames == {None, Str(<<"o","u","t">>)}

\* what the packaging service answers
Responses ==
    {[status_code |-> 200, content |-> <<80, 75>>],
     [status_code |-> 200, content |-> <<31, 139>>],
     [status_code |-> 500, content |-> <<123>>]}

Tuple(x) == [t |-> "tuple", v |-> x]

LastIndex(s, c) ==
    IF \E i \in 1..Len(s) : s[i] = c
    THEN CHOOSE i \in 1..Len(s) : s[i] = c /\ \A j \in (i + 1)..Len(s) : s[j] # c
    ELSE 0

\* os.path.splitext(p): (root, ext), the extension starting at the last dot
\* of the last component unless that component is all leading dots; a
\* TypeError for what is no str
splitext(p) ==
    IF p.t # "str" THEN Raised("TypeError")
    ELSE LET sep == LastIndex(p.v, "/")
             dot == LastIndex(p.v, ".")
         IN  IF dot > sep /\ \E i \in (sep + 1)..(dot - 1) : p.v[i] # "."
             THEN Returned(Tuple(<<Str(SubSeq(p.v, 1, dot - 1)),
                                   Str(SubSeq(p.v, dot, Len(p.v)))>>))
             ELSE Returned(Tuple(<<p, Str(<<>>)>>))

\* a + b
Add(a, b) ==
    IF a.t = "str" /\ b.t = "str"
    THEN Returned(Str(a.v \o b.v))
    ELSE Raised("TypeError")

DotGz == Str(<<".","g","z">>)

\* file_list = [file_list] if type(file_list) is dict else file_list
Normalize(file_list) ==
    IF file_list.t = "dict" THEN <<file_list.v>> ELSE file_list.v

Properties(file_list) ==
    {<<file_list[i].datasetId, file_list[i].datasetVersion>> :
        i \in 1..Len(file_list)}

Paths(file_list) ==
    [i \in 1..Len(file_list) |->
        LET x == file_list[i] IN
        IF x.uri = None THEN Dict(x) ELSE Str(RelativePath(x.uri.v))]

\* a variant that only asks for a non-empty batch
AssertSingle_mut(properties) == Cardinality(properties) >= 1

\* assert len(properties) == 1
AssertSingle(properties) == Cardinality(properties) = 1

Payload(paths, properties) ==
    LET pair == CHOOSE pr \in properties : TRUE IN
    [data |-> [paths |-> paths, datasetId |-> pair[1], version |-> pair[2]]]

\* the name of the file to write
OutputName(file_list, paths, output_name) ==
    IF output_name # None THEN Returned(output_name)
    ELSE IF Len(paths) = 1 THEN Returned(Str(file_list[1].name))
    ELSE LET parts == splitext(Dict(file_list[1])) IN
         IF parts.st = "raised" THEN parts ELSE Add(parts.value, DotGz)

\* what a call did, in the order it did it
PostEvent(json) ==
    [e |-> "post", url |-> zipit_url, json |-> json,
     headers |-> {<<"content-type", "application/json">>}]

OpenEvent(name) == [e |-> "open", name |-> name]

WriteEvent(data, complete) == [e |-> "write", data |-> data, complete |-> complete]

\* a variant that appends to a file that exists (mode "ab+")
FsWrite_mut(f, name, data) ==
    [n \in DOMAIN f \cup {name} |->
        IF n # name THEN f[n]
        ELSE IF name \in DOMAIN f THEN f[name] \o data ELSE data]

\* open(name, "wb+") and write(data): the file is created or truncated
FsWrite(f, name, data) ==
    [n \in DOMAIN f \cup {name} |-> IF n = name THEN data ELSE f[n]]

StrictPrefixes(data) == {SubSeq(data, 1, k) : k \in 0..(Len(data) - 1)}

\* with open(output_name, mode="wb+") as f: f.write(response.content)
\* The open may fail and leave everything as it was; once it succeeded the
\* file exists and is empty, and a write that fails leaves part of the data.
WriteFile(name, response, done) ==
    \/ /\ trace' = done \o <<OpenEvent(name), WriteEvent(response.content, TRUE)>>
       /\ fs' = FsWrite(fs, name, response.content)
       /\ ret' = Returned(response)
    \/ /\ trace' = done
       /\ ret' = Raised("OSError")
       /\ UNCHANGED fs
    \/ \E part \in StrictPrefixes(response.content) :
       /\ trace' = done \o <<OpenEvent(name), WriteEvent(part, FALSE)>>
       /\ fs' = FsWrite(fs, name, part)
       /\ ret' = Raised("OSError")

DownloadFile(arg, output_name) ==
    /\ obj = "live"
    /\ ncalls < MaxCalls
    /\ ncalls' = ncalls + 1
    /\ call' = [op |-> "download_file", file_list |-> arg,
                output_name |-> output_name]
    /\ LET file_list  == Normalize(arg)
           properties == Properties(file_list)
           paths      == Paths(file_list)
           posted     == <<PostEvent(Payload(paths, properties))>>
       IN  IF ~AssertSingle(properties)
           THEN /\ ret' = Raised("AssertionError")
                /\ resp' = None
                /\ trace' = <<>>
                /\ UNCHANGED fs
           ELSE \/ /\ resp' = None
                   /\ ret' = Raised("ConnectionError")
                   /\ trace' = posted
                   /\ UNCHANGED fs
                \/ \E response \in Responses :
                   /\ resp' = response
                   /\ LET name == OutputName(file_list, paths, output_name) IN
                      IF name.st = "raised"
                      THEN /\ ret' = name
                           /\ trace' = posted
                           /\ UNCHANGED fs
                      ELSE WriteFile(name.value.v, response, posted)
    /\ UNCHANGED <<sessionVars, dcalls, dret>>

\* a directory that already holds a file of an earlier download
StaleFiles == [n \in {NameA} |-> <<80, 75, 3, 4>>]

InitDownload ==
    /\ obj = "live"
    /\ config = None
    /\ profile_name = None
    /\ delegate = NewDelegate
    /\ call = [op |-> "__init__", config |-> None, connect |-> FALSE]
    /\ ret = Returned(None)
    /\ dcalls = <<[m |-> "Pennsieve", kw |-> {<<"connect", FALSE>>}]>>
    /\ dret = None
    /\ resp = None
    /\ trace = <<>>
    /\ fs \in {NoFiles, StaleFiles}
    /\ ncalls = 0

NextDownload ==
    \E arg \in FileLists, output_name \in OutputNames :
        DownloadFile(arg, output_name)

SpecDownload == InitDownload /\ [][NextDownload]_vars

\* ------------------------------------------------------------------------
\* Properties
\* ------------------------------------------------------------------------
IsDownload == call.op = "download_file"

Batch == Normalize(call.file_list)

PairOf(x) == <<x.datasetId, x.datasetVersion>>

MixedBatch(l) == \E i, j \in 1..Len(l) : PairOf(l[i]) # PairOf(l[j])

ValidBatch(l) == Len(l) >= 1 /\ ~MixedBatch(l)

Events(kind) == SelectSeq(trace, LAMBDA ev : ev.e = kind)

RaisedWith(r, e) == r.st = "raised" /\ r.exc = e

\* C1: a download_file call on a batch whose descriptors do not share one
\* (datasetId, datasetVersion) pair fails with the assertion's error and has
\* no effect: no POST is issued, no response is received, no file is opened
\* and the local files are what they were.
C1_MixedBatchIssuesNothing ==
    [][(call'.op = "download_file" /\ MixedBatch(Normalize(call'.file_list)))
        => /\ RaisedWith(ret', "AssertionError")
           /\ trace' = <<>>
           /\ resp' = None
           /\ fs' = fs]_vars

C1_Witness ==
    /\ IsDownload
    /\ call.file_list.t = "list"
    /\ Len(Batch) = 2
    /\ Batch[1].datasetId = Batch[2].datasetId
    /\ Batch[1].datasetVersion # Batch[2].datasetVersion
    /\ call.output_name # None
    /\ RaisedWith(ret, "AssertionError")

Stem(name) == splitext(Str(name)).value.v[1].v

ExpectedName(l, output_name) ==
    IF output_name # None THEN output_name.v
    ELSE IF Len(l) = 1 THEN l[1].name
    ELSE Stem(l[1].name) \o DotGz.v

\* C2: a download_file call on a valid batch that got its response and met
\* no file-system error opens the file named by output_name when that is
\* given, else by the only descriptor's name, else by the first descriptor's
\* name with its extension replaced by .gz.
C2_OutputNameRule ==
    (/\ IsDownload
     /\ ValidBatch(Batch)
     /\ resp # None
     /\ ~RaisedWith(ret, "OSError"))
        => \E k \in 1..Len(trace) :
            /\ trace[k].e = "open"
            /\ trace[k].name = ExpectedName(Batch, call.output_name)

\* "sub/path/file.csv"
SubPathFile ==
    <<"s","u","b","/","p","a","t","h","/","f","i","l","e",".","c","s","v">>

\* "version/sub/path/file.csv"
VersionSubPathFile == <<"v","e","r","s","i","o","n","/">> \o SubPathFile

IsListFilenames ==
    /\ call.op = "list_filenames"
    /\ ret.st = "returned"

\* r is what follows the fifth "/" of uri, and is empty when uri has fewer
\* than five of them
FollowsFifthSlash(uri, r) ==
    LET count(n) == Cardinality({i \in 1..n : uri[i] = "/"})
        cut      == Len(uri) - Len(r)
    IN  IF count(Len(uri)) < PrefixSegments THEN r = <<>>
        ELSE /\ cut >= 1
             /\ uri[cut] = "/"
             /\ count(cut) = PrefixSegments
             /\ r = SubSeq(uri, cut + 1, Len(uri))

ExpectedPath(x) ==
    IF x.uri # None THEN Str(RelativePath(x.uri.v)) ELSE Str(x.path)

\* C4: the payload download_file posts lists one path per descriptor in batch
\* order, the uri-derived relative path of a descriptor with a uri and the
\* path field of one without, and carries the batch's datasetId and version.
C4_PayloadPaths ==
    (IsDownload /\ Len(Events("post")) >= 1) =>
        LET data == Events("post")[1].json.data IN
        /\ Len(data.paths) = Len(Batch)
        /\ \A i \in 1..Len(Batch) : data.paths[i] = ExpectedPath(Batch[i])
        /\ data.datasetId = Batch[1].datasetId
        /\ data.version = Batch[1].datasetVersion

Malformed(uri) == Len(Split(uri)) < PrefixSegments

\* C5: list_filenames on a files array that holds a uri of fewer than five
\* segments, and download_file on a batch that holds one, fail with the
\* malformed-URI error.
C5_ShortUriRejected ==
    /\ (/\ call.op = "list_filenames"
        /\ dret # None
        /\ "files" \in DOMAIN dret
        /\ \E i \in 1..Len(dret.files) : Malformed(dret.files[i].uri.v))
            => RaisedWith(ret, "MalformedURIError")
    /\ (/\ IsDownload
        /\ \E i \in 1..Len(Batch) :
            Batch[i].uri # None /\ Malformed(Batch[i].uri.v))
            => RaisedWith(ret, "MalformedURIError")

\* C6: a download_file call whose POST met a network failure or was answered
\* with a status outside 200..299 does not return normally, and no call
\* posts more than once.
C6_RemoteFailureRaises ==
    IsDownload =>
        /\ Len(Events("post")) <= 1
        /\ (/\ Len(Events("post")) = 1
            /\ (resp = None \/ resp.status_code \notin 200..299))
                => ret.st = "raised"

HasProfileField(cfg) == cfg # None /\ \E kv \in cfg.v : kv[1] = ProfileKey

\* C7: constructing the service with no configuration mapping, or with one
\* that lacks the profile-name field, succeeds and leaves the profile None
\* (unless the delegate itself refuses the connect that was asked for).
C7_ConstructsWithoutProfile ==
    (/\ call.op = "__init__"
     /\ ~HasProfileField(call.config)
     /\ ~RaisedWith(ret, "DelegateError"))
        => /\ ret.st = "returned"
           /\ obj = "live"
           /\ profile_name = None

CtorProfile == IF config = None THEN None ELSE DictGet(config.v, ProfileKey)

\* C8: whatever was called since construction, the wrapper's profile_name is
\* the one the configuration gave it, and a connect() passes exactly that
\* name to the delegate, or no name when there is none.
C8_ProfileNameFixed ==
    obj = "live" =>
        /\ profile_name = CtorProfile
        /\ call.op = "connect" =>
            /\ Len(dcalls) = 1
            /\ dcalls[1].m = "connect"
            /\ dcalls[1].kw = IF CtorProfile = None THEN {}
                              ELSE {<<"profile_name", CtorProfile.v>>}

C8_Witness ==
    /\ obj = "live"
    /\ call.op = "set_profile"
    /\ ret.st = "returned"
    /\ delegate.active = call.profile_name
    /\ profile_name # None
    /\ profile_name.v # call.profile_name

C10_WriteFollowsPost ==
    IsDownload =>
        /\ Len(Events("open")) >= 1 =>
            /\ Len(Events("post")) = 1
            /\ trace[1].e = "post"
            /\ Len(Events("open")) = 1
        /\ (\E k \in 1..Len(trace) : trace[k].e = "write" /\ trace[k].complete) =>
            /\ Len(trace) = 3
            /\ trace[2].e = "open"
            /\ trace[3].e = "write"
            /\ resp # None
            /\ trace[3].data = resp.content
            /\ trace[2].name \in DOMAIN fs
            /\ fs[trace[2].name] = resp.content
            /\ ret.st = "returned"
            /\ ret.value = resp

C10_Witness ==
    /\ IsDownload
    /\ ret.st = "returned"
    /\ Len(trace) = 3
    /\ trace[2].name = NameA
    /\ fs[NameA] = resp.content
    /\ Len(resp.content) = 2

====
